---- MODULE Spec2Model ----
(***************************************************************************)
(* A model of nGPT_pytorch/nGPT.py: the hypersphere normalizer l2norm, the *)
(* norm-constrained projection NormLinear, the Residual wrapper, the       *)
(* Attention masking logic and the nGPT constructor and forward pass.      *)
(*                                                                         *)
(* Numbers.  A tensor element is a record [n, q] standing for the real     *)
(* number n / sqrt(q) (n an integer, q a positive integer), kept in        *)
(* canonical form, so that dividing by an Euclidean norm is exact.  A      *)
(* rational is the pair <<a, b>> standing for a / b.  Floating point       *)
(* rounding is not modelled: "unit norm" is exact here.                    *)
(***************************************************************************)
EXTENDS Integers, Sequences, FiniteSets, TLC

VARIABLES
    l2,        \* one call of l2norm: its arguments and its result
    nl,        \* one NormLinear under the eager policy, and what forward used
    net,       \* a lazily normalized nGPT under training: weights, hook, forward
    res,       \* one call of Residual.forward
    lg,        \* the logits of a tied and of an untied network
    ctor,      \* a run of nGPT.__init__
    att,       \* one call of Attention.forward with a mask
    fwd        \* a run of nGPT.forward (position in the layer loop and locals)

vars == <<l2, nl, net, res, lg, ctor, att, fwd>>

None == "None"
Idle == [pc |-> "idle"]

---------------------------------------------------------------------------
(* Bounds of the model *)

\* largest magnitude of an integer tensor entry drawn as an input
EntryMax == 1

\* the largest depth of a network
MaxDepth == 3

\* the longest tuple or list given as a hyperparameter
MaxSeqLen == 4

\* the batch size and the longest sequence of a masked attention call
MaxBatch == 2
MaxSeq == 3

---------------------------------------------------------------------------
(* Exact arithmetic *)

Sq(x) == x * x

Abs(x) == IF x < 0 THEN -x ELSE x

RECURSIVE GCD(_, _)
GCD(a, b) == IF b = 0 THEN Abs(a) ELSE GCD(b, a % b)

\* the rational a / b in lowest terms, b > 0
Rat(a, b) ==
    LET g == GCD(Abs(a), Abs(b))
        s == IF b < 0 THEN -1 ELSE 1
    IN  <<(s * a) \div g, (s * b) \div g>>

RatAdd(x, y) == Rat(x[1] * y[2] + y[1] * x[2], x[2] * y[2])

RatMul(x, y) == Rat(x[1] * y[1], x[2] * y[2])

RatLess(x, y) == x[1] * y[2] < y[1] * x[2]

\* n / sqrt(q) in canonical form: no k > 1 with k | n and k^2 | q
Surd(n, q) ==
    IF n = 0 THEN [n |-> 0, q |-> 1]
    ELSE LET ks == {k \in 1..Abs(n) : n % k = 0 /\ q % (k * k) = 0}
             k  == CHOOSE x \in ks : \A y \in ks : y <= x
         IN  [n |-> n \div k, q |-> q \div (k * k)]

Int2Surd(i) == [n |-> i, q |-> 1]

\* the square of an element, a rational
SurdSq(e) == Rat(Sq(e.n), e.q)

\* an element times the rational c[1] / c[2] (c[2] > 0)
SurdScale(e, c) == Surd(e.n * c[1], e.q * Sq(c[2]))

\* an element divided by the square root of the positive rational r
SurdDivSqrt(e, r) == Surd(e.n * r[2], e.q * r[1] * r[2])

SurdMul(a, b) == Surd(a.n * b.n, a.q * b.q)

\* the integer square root of a perfect square
ISqrt(x) == CHOOSE r \in 0..x : r * r = x

\* a + b for commensurable elements (a.q * b.q a perfect square)
SurdAdd(a, b) ==
    IF a.n = 0 THEN b
    ELSE IF b.n = 0 THEN a
    ELSE SurdScale(a, Rat(a.n * b.q + b.n * ISqrt(a.q * b.q), a.n * b.q))

\* 1 / a for a nonzero element: sqrt(q) / n = q / (n * sqrt(q))
SurdInv(a) == Surd((IF a.n < 0 THEN -1 ELSE 1) * a.q, a.q * Sq(a.n))

SurdNeg(a) == [n |-> 0 - a.n, q |-> a.q]

RECURSIVE DotTo(_, _, _)
DotTo(u, v, k) ==
    IF k = 0 THEN Surd(0, 1) ELSE SurdAdd(DotTo(u, v, k - 1), SurdMul(u[k], v[k]))

\* the dot product of two vectors
Dot(u, v) == DotTo(u, v, Len(u))

RECURSIVE SumSqTo(_, _)
SumSqTo(line, k) ==
    IF k = 0 THEN <<0, 1>> ELSE RatAdd(SumSqTo(line, k - 1), SurdSq(line[k]))

\* the squared Euclidean norm of a sequence of elements
NormSq(line) == SumSqTo(line, Len(line))

IsUnit(line) == NormSq(line) = <<1, 1>>

IsZero(line) == \A k \in 1..Len(line) : line[k].n = 0

---------------------------------------------------------------------------
(* l2norm, nGPT.py lines 40-63.  A tensor is a matrix t[i][j]; dim 0 is    *)
(* the axis of i and dim -1 the axis of j.  After chunk and stack the      *)
(* tensor is s[k][i][j] with the group index k as its new axis 0.          *)

\* t.chunk(groups, dim = dim), for a size along dim that groups divides
chunk(t, groups, dim) ==
    LET R == Len(t)
        C == Len(t[1])
    IN  IF dim = 0
        THEN [k \in 1..groups |->
                SubSeq(t, (k - 1) * (R \div groups) + 1, k * (R \div groups))]
        ELSE [k \in 1..groups |->
                [i \in 1..R |->
                    SubSeq(t[i], (k - 1) * (C \div groups) + 1, k * (C \div groups))]]

\* torch.stack: the chunks become the slices of a new leading axis
stack(chunks) == chunks

\* the elements an element is normalized with, along dim, in a matrix
Line2(t, dim, i, j) ==
    IF dim = 0 THEN [ii \in 1..Len(t) |-> t[ii][j]] ELSE t[i]

\* the same in a stacked tensor: dim 0 is the leading (group) axis
Line3(s, dim, k, i, j) ==
    IF dim = 0 THEN [kk \in 1..Len(s) |-> s[kk][i][j]] ELSE s[k][i]

\* F.normalize(t, dim, p = 2) on one element: t / max(norm, 1e-12).  Every
\* nonzero norm of the model is above the floor; a zero line stays zero.
normalize_elem(e, nsq) ==
    IF nsq[1] = 0 THEN Surd(0, 1) ELSE SurdDivSqrt(e, nsq)

\* lines 54-58 on one element: the norm is clamped into [1 - eps, 1 + eps]
\* and the element divided by norm / target (floored at a tiny eps, which
\* only a zero norm reaches)
clamp_elem(e, nsq, norm_eps) ==
    LET lo == RatAdd(<<1, 1>>, <<-norm_eps[1], norm_eps[2]>>)
        hi == RatAdd(<<1, 1>>, norm_eps)
    IN  IF nsq[1] = 0 THEN Surd(0, 1)
        ELSE IF RatLess(nsq, RatMul(lo, lo)) THEN SurdDivSqrt(SurdScale(e, lo), nsq)
        ELSE IF RatLess(RatMul(hi, hi), nsq) THEN SurdDivSqrt(SurdScale(e, hi), nsq)
        ELSE Surd(e.n, e.q)

norm_elem(e, nsq, norm_eps) ==
    IF norm_eps[1] = 0 THEN normalize_elem(e, nsq) ELSE clamp_elem(e, nsq, norm_eps)

\* lines 51-58 on a matrix
norm2(t, dim, norm_eps) ==
    [i \in 1..Len(t) |-> [j \in 1..Len(t[1]) |->
        norm_elem(t[i][j], NormSq(Line2(t, dim, i, j)), norm_eps)]]

\* lines 51-58 on a stacked tensor: dim still names an axis of the stack
norm3(s, dim, norm_eps) ==
    [k \in 1..Len(s) |-> [i \in 1..Len(s[1]) |-> [j \in 1..Len(s[1][1]) |->
        norm_elem(s[k][i][j], NormSq(Line3(s, dim, k, i, j)), norm_eps)]]]

RECURSIVE CatRows(_, _)
CatRows(out, k) == IF k = 0 THEN <<>> ELSE CatRows(out, k - 1) \o out[k]

RECURSIVE CatCols(_, _, _)
CatCols(out, i, k) == IF k = 0 THEN <<>> ELSE CatCols(out, i, k - 1) \o out[k][i]

\* torch.cat([*out], dim = dim)
cat(out, dim) ==
    IF dim = 0 THEN CatRows(out, Len(out))
    ELSE [i \in 1..Len(out[1]) |-> CatCols(out, i, Len(out))]

l2norm(t, dim, norm_eps, groups) ==
    IF groups > 1
    THEN cat(norm3(stack(chunk(t, groups, dim)), dim, norm_eps), dim)
    ELSE norm2(t, dim, norm_eps)

---------------------------------------------------------------------------
(* Inputs *)

Entries == (0 - EntryMax)..EntryMax

IntMatrices(R, C) == [1..R -> [1..C -> {Int2Surd(i) : i \in Entries}]]

Shapes == {<<2, 2>>, <<1, 4>>, <<4, 1>>}

Dims == {-1, 0}

\* norm_eps = 0 and a norm_eps > 0 (one half)
Tolerances == {<<0, 1>>, <<1, 2>>}

SizeAlong(t, dim) == IF dim = 0 THEN Len(t) ELSE Len(t[1])

---------------------------------------------------------------------------
(* One call of l2norm on a drawn tensor *)

L2Init ==
    \E sh \in Shapes, d \in Dims, g \in 1..2, e \in Tolerances :
      \E t \in IntMatrices(sh[1], sh[2]) :
        /\ SizeAlong(t, d) % g = 0
        /\ l2 = [pc |-> "call", t |-> t, dim |-> d, norm_eps |-> e, groups |-> g,
                 out |-> <<>>]

L2Call ==
    /\ l2.pc = "call"
    /\ l2' = [l2 EXCEPT !.pc = "done",
                        !.out = l2norm(l2.t, l2.dim, l2.norm_eps, l2.groups)]
    /\ UNCHANGED <<nl, net, res, lg, ctor, att, fwd>>

InitL2 ==
    /\ L2Init
    /\ nl = Idle /\ net = Idle /\ res = Idle /\ lg = Idle
    /\ ctor = Idle /\ att = Idle /\ fwd = Idle

NextL2 == L2Call

SpecL2 == InitL2 /\ [][NextL2]_vars

\* C4: with groups = g > 1 the result equals normalizing each of the g
\* contiguous slices along the axis on its own and concatenating them back in
\* order, for the last axis and for axis 0.
C4_GroupIndependence ==
    (l2.pc = "done" /\ l2.groups > 1) =>
        l2.out = cat([k \in 1..l2.groups |->
                        norm2(chunk(l2.t, l2.groups, l2.dim)[k], l2.dim, l2.norm_eps)],
                     l2.dim)

---------------------------------------------------------------------------
(* NormLinear, nGPT.py lines 138-189.  A NormLinear is a record            *)
(* [parametrize, dim, norm_eps, groups, stored]: dim is the axis of its    *)
(* L2Norm (-1 if norm_dim_in else 0, line 156) and stored is the tensor    *)
(* the optimizer updates: linear.parametrizations.weight.original under    *)
(* parametrize, linear.weight otherwise.  stored[i][j] is the weight of    *)
(* output feature i and input feature j.                                   *)

\* the weight as it would read had the parametrization not been registered
NormLinear_weight_unregistered(m) == m.stored

\* the property weight (lines 184-186): linear.weight, which under a
\* registered parametrization (lines 158-163) is L2Norm(original)
NormLinear_weight(m) ==
    IF m.parametrize THEN l2norm(m.stored, m.dim, m.norm_eps, m.groups)
    ELSE m.stored

\* norm_weights_, lines 174-182
NormLinear_norm_weights_(m) ==
    IF m.parametrize
    THEN [m EXCEPT !.stored = NormLinear_weight(m)]
    ELSE [m EXCEPT !.stored = l2norm(NormLinear_weight(m), m.dim, m.norm_eps, m.groups)]

\* __init__, lines 139-165, from the weight nn.Linear drew
NormLinear_init(raw, norm_dim_in, parametrize, norm_eps, groups) ==
    NormLinear_norm_weights_(
        [parametrize |-> parametrize, dim |-> IF norm_dim_in THEN -1 ELSE 0,
         norm_eps |-> norm_eps, groups |-> groups, stored |-> raw])

\* nn.Linear without bias: y[i] = sum over j of W[i][j] * x[j]
linear(W, x) == [i \in 1..Len(W) |-> Dot(W[i], x)]

\* forward, lines 188-189: linear(x) * scale with scale = groups ** -1 (line 154)
NormLinear_forward(m, x) ==
    LET y == linear(NormLinear_weight(m), x)
    IN  [i \in 1..Len(y) |-> SurdScale(y[i], <<1, m.groups>>)]

\* the vectors a NormLinear keeps normalized: its rows under dim -1, its
\* columns under dim 0
Lines(W, dim) ==
    IF dim = 0 THEN {[i \in 1..Len(W) |-> W[i][j]] : j \in 1..Len(W[1])}
    ELSE {W[i] : i \in 1..Len(W)}

\* W with line k (row k under dim -1, column k under dim 0) times the rational c
RescaleLine(W, dim, k, c) ==
    [i \in 1..Len(W) |-> [j \in 1..Len(W[1]) |->
        IF (IF dim = 0 THEN j ELSE i) = k THEN SurdScale(W[i][j], c) ELSE W[i][j]]]

---------------------------------------------------------------------------
(* One NormLinear under the eager policy: its stored rows are rescaled,    *)
(* norm_weights_ is invoked or not, and forward reads the weight.          *)

\* how many times a stored weight is perturbed in a run
MaxPerturb == 2

\* the factors a perturbation rescales a line by (directions kept)
PerturbFactors == {<<2, 1>>, <<1, 2>>}

\* the weights nn.Linear may have drawn: no entry is exactly zero
RawWeights == [1..2 -> [1..2 -> {Int2Surd(-1), Int2Surd(2)}]]

\* a batch holding every one-hot input: forward's output then shows every
\* entry of the weight it used
OneHotBatch(n) == [b \in 1..n |-> [j \in 1..n |-> Int2Surd(IF j = b THEN 1 ELSE 0)]]

NLInit ==
    \E raw \in RawWeights, ndi \in BOOLEAN, e \in Tolerances, g \in 1..2 :
      LET m == NormLinear_init(raw, ndi, TRUE, e, g)
      IN  nl = [pc |-> "built", m |-> m, built |-> NormLinear_weight(m),
                nperturb |-> 0, lastOp |-> "__init__", prev |-> raw,
                ran |-> FALSE, used |-> <<>>, y |-> <<>>]

\* an optimizer-like update that rescales one normalized line of the stored weight
NLPerturb ==
    /\ nl.pc = "built"
    /\ nl.nperturb < MaxPerturb
    /\ \E k \in 1..2, c \in PerturbFactors :
         nl' = [nl EXCEPT !.m.stored = RescaleLine(nl.m.stored, nl.m.dim, k, c),
                          !.nperturb = @ + 1, !.lastOp = "perturb",
                          !.ran = FALSE, !.used = <<>>, !.y = <<>>]
    /\ UNCHANGED <<l2, net, res, lg, ctor, att, fwd>>

NLNormWeights ==
    /\ nl.pc = "built"
    /\ nl.lastOp # "norm_weights_"
    /\ nl' = [nl EXCEPT !.m = NormLinear_norm_weights_(nl.m),
                        !.prev = nl.m.stored, !.lastOp = "norm_weights_",
                        !.ran = FALSE, !.used = <<>>, !.y = <<>>]
    /\ UNCHANGED <<l2, net, res, lg, ctor, att, fwd>>

NLForward ==
    /\ nl.pc = "built"
    /\ ~nl.ran
    /\ nl' = [nl EXCEPT !.ran = TRUE, !.used = NormLinear_weight(nl.m),
                        !.y = [b \in 1..2 |-> NormLinear_forward(nl.m, OneHotBatch(2)[b])]]
    /\ UNCHANGED <<l2, net, res, lg, ctor, att, fwd>>

InitNL ==
    /\ NLInit
    /\ l2 = Idle /\ net = Idle /\ res = Idle /\ lg = Idle
    /\ ctor = Idle /\ att = Idle /\ fwd = Idle

NextNL == NLPerturb \/ NLNormWeights \/ NLForward

SpecNL == InitNL /\ [][NextNL]_vars

\* the output forward gives for the one-hot batch with the weight W
OutputWith(W, groups) ==
    [b \in 1..2 |-> [i \in 1..2 |-> SurdScale(linear(W, OneHotBatch(2)[b])[i], <<1, groups>>)]]

\* the squared norm of ln lies in [(1 - eps)^2, (1 + eps)^2]
InBand(ln, eps) ==
    LET lo == RatAdd(<<1, 1>>, <<-eps[1], eps[2]>>)
        hi == RatAdd(<<1, 1>>, eps)
    IN  ~RatLess(NormSq(ln), RatMul(lo, lo)) /\ ~RatLess(RatMul(hi, hi), NormSq(ln))

---------------------------------------------------------------------------
(* Scale, nGPT.py lines 67-89: a learned per-channel parameter and the     *)
(* fixed ratio init / scale it is multiplied by on use.                    *)

\* __init__, lines 71-80
Scale_init(dim, init, scale) ==
    [dim |-> dim, scale |-> [c \in 1..dim |-> scale],
     forward_scale |-> SurdMul(init, SurdInv(scale))]

\* forward, lines 88-89
Scale_forward(sc) == [c \in 1..sc.dim |-> SurdMul(sc.scale[c], sc.forward_scale)]

---------------------------------------------------------------------------
(* Residual, nGPT.py lines 93-124.  Its L2Norm has dim -1 and the          *)
(* norm_eps = 0, groups = 1 of lines 100-101 (nGPT passes neither, lines   *)
(* 475-487).  An activation is a vector over the model dimension; the      *)
(* inner block's result is [tuple, out, rest].                             *)

\* the L2Norm of line 106 on one vector
Residual_l2norm(v) == l2norm(<<v>>, -1, <<0, 1>>, 1)[1]

\* Tensor.lerp: start + weight * (end - start), per channel
lerp(start, end, weight) ==
    [c \in 1..Len(start) |->
        SurdAdd(start[c], SurdMul(weight[c], SurdAdd(end[c], SurdNeg(start[c]))))]

\* forward without the normalization of the fused vector
Residual_forward_unnormed(x, fnret, branch_scale) ==
    LET out1  == Residual_l2norm(fnret.out)
        fused == lerp(x, out1, Scale_forward(branch_scale))
    IN  [tuple |-> fnret.tuple, out |-> fused, rest |-> fnret.rest,
         normed |-> out1, fused |-> fused]

\* forward, lines 108-124: fnret is what self.fn(x) returned
Residual_forward(x, fnret, branch_scale) ==
    LET out1  == Residual_l2norm(fnret.out)
        fused == lerp(x, out1, Scale_forward(branch_scale))
    IN  [tuple |-> fnret.tuple, out |-> Residual_l2norm(fused), rest |-> fnret.rest,
         normed |-> out1, fused |-> fused]

---------------------------------------------------------------------------
(* One call of Residual.forward at model dimension 2 *)

Vec(a, b) == <<Int2Surd(a), Int2Surd(b)>>

\* unit-norm inputs x
UnitInputs ==
    {Vec(1, 0), Vec(0, 1), Vec(-1, 0), Vec(0, -1),
     <<Surd(3, 25), Surd(4, 25)>>, <<Surd(-4, 25), Surd(3, 25)>>}

\* what the inner block may return: any norm, the zero vector, and for
\* each input a vector opposite to it
FnOutputs ==
    {Vec(0, 0), Vec(2, 0), Vec(-2, 0), Vec(0, 1), Vec(0, -3), Vec(0, 3),
     Vec(3, 4), Vec(-3, -4), Vec(4, -3), Vec(8, -6)}

\* the auxiliary payloads an inner block may return beside its output
Payloads == {<<"values">>, <<"values", "extra">>}

\* values of the learned parameter of branch_scale, in units of its
\* initial value: with init 1/2 and scale 1/sqrt(2) the interpolation
\* weight is half the factor
LearnedFactors == {-2, 0, 1, 2, 4}

ResInit ==
    \E x \in UnitInputs, o \in FnOutputs, tup \in BOOLEAN, f1, f2 \in LearnedFactors :
      \E rest \in (IF tup THEN Payloads ELSE {<<>>}) :
        LET sc == Scale_init(2, Surd(1, 4), Surd(1, 2))
        IN  res = [pc |-> "call", x |-> x,
                   fnret |-> [tuple |-> tup, out |-> o, rest |-> rest],
                   branch_scale |-> [sc EXCEPT !.scale =
                        <<SurdScale(sc.scale[1], <<f1, 1>>), SurdScale(sc.scale[2], <<f2, 1>>)>>],
                   ret |-> <<>>]

ResForward ==
    /\ res.pc = "call"
    /\ res' = [res EXCEPT !.pc = "done",
                          !.ret = Residual_forward(res.x, res.fnret, res.branch_scale)]
    /\ UNCHANGED <<l2, nl, net, lg, ctor, att, fwd>>

InitRes ==
    /\ ResInit
    /\ l2 = Idle /\ nl = Idle /\ net = Idle /\ lg = Idle
    /\ ctor = Idle /\ att = Idle /\ fwd = Idle

NextRes == ResForward

SpecRes == InitRes /\ [][NextRes]_vars

\* C3 as stated: for every unit-norm x, every interpolation weight and every
\* inner output (zero and opposite vectors included) the primary output has
\* unit norm, and the rest of a tuple is returned unmodified.
C3_AsStated ==
    res.pc = "done" =>
        /\ IsUnit(res.ret.out)
        /\ res.ret.tuple = res.fnret.tuple
        /\ res.ret.rest = res.fnret.rest

\* C3 amended: the primary output has unit norm whenever the interpolated
\* vector lerp(x, l2norm(fn(x)), weight) is not the zero vector; when it is
\* (for instance fn(x) = 0 with weight 1, or fn(x) opposite to x with weight
\* 1/2) the output is the zero vector; the rest of a tuple is returned
\* unmodified in both cases.
C3_ResidualUnitNorm ==
    res.pc = "done" =>
        /\ ~IsZero(res.ret.fused) => IsUnit(res.ret.out)
        /\ IsZero(res.ret.fused) => IsZero(res.ret.out)
        /\ res.ret.tuple = res.fnret.tuple
        /\ res.ret.rest = res.fnret.rest

\* a tuple-returning inner block whose output is opposite to x and of norm
\* 5, fused with a weight that is neither 0 nor 1, gives a unit-norm output
C3_Witness ==
    /\ res.pc = "done" /\ res.fnret.tuple
    /\ res.x = <<Surd(3, 25), Surd(4, 25)>> /\ res.fnret.out = Vec(-3, -4)
    /\ Scale_forward(res.branch_scale) = <<Surd(2, 1), Surd(-1, 1)>>
    /\ res.ret.rest = <<"values", "extra">>
    /\ IsUnit(res.ret.out) /\ ~IsUnit(res.ret.fused)

---------------------------------------------------------------------------
(* The logits of nGPT.forward, nGPT.py lines 553-559.  A network is        *)
(* [token_embed, to_logits, logit_scale]; to_logits is None when           *)
(* tied_embedding (line 491).                                              *)

\* einsum(tokens, token_embed, 'b n d, c d -> b n c') for one position
einsum_nd_cd(tokens, token_embed) ==
    [c \in 1..Len(token_embed) |-> Dot(tokens, token_embed[c])]

\* lines 553-559: the logits before and after the logit scale
nGPT_logits(network, tokens) ==
    LET logits == IF network.tied
                  THEN einsum_nd_cd(tokens, NormLinear_weight(network.token_embed))
                  ELSE NormLinear_forward(network.to_logits, tokens)
        sc     == Scale_forward(network.logit_scale)
    IN  [logits |-> logits,
         scaled |-> [c \in 1..Len(logits) |-> SurdMul(logits[c], sc[c])]]

---------------------------------------------------------------------------
(* A tied network and an untied one whose to_logits holds the weights of   *)
(* the embedding table, on the same final tokens (dim 2, two tokens).      *)

\* rows the embedding table may have been drawn with
EmbedRows == {Vec(3, 4), Vec(-4, 3), Vec(0, -2), Vec(1, 0)}

LgInit ==
    \E r1, r2 \in EmbedRows, g \in 1..2, e \in Tolerances, manual \in BOOLEAN,
       x \in UnitInputs :
      LET embed == NormLinear_init(<<r1, r2>>, TRUE, ~manual, e, g)
          ls    == Scale_init(2, Surd(1, 1), Surd(1, 2))
      IN  lg = [pc |-> "built", tokens |-> x, num_hyperspheres |-> g,
                tiedNet   |-> [tied |-> TRUE, token_embed |-> embed,
                               to_logits |-> None, logit_scale |-> ls],
                untiedNet |-> [tied |-> FALSE, token_embed |-> embed,
                               to_logits |-> embed, logit_scale |-> ls],
                tiedOut |-> <<>>, untiedOut |-> <<>>]

LgForwardTied ==
    /\ lg.pc = "built"
    /\ lg.tiedOut = <<>>
    /\ lg' = [lg EXCEPT !.tiedOut = <<nGPT_logits(lg.tiedNet, lg.tokens)>>]
    /\ UNCHANGED <<l2, nl, net, res, ctor, att, fwd>>

LgForwardUntied ==
    /\ lg.pc = "built"
    /\ lg.untiedOut = <<>>
    /\ lg' = [lg EXCEPT !.untiedOut = <<nGPT_logits(lg.untiedNet, lg.tokens)>>]
    /\ UNCHANGED <<l2, nl, net, res, ctor, att, fwd>>

InitLg ==
    /\ LgInit
    /\ l2 = Idle /\ nl = Idle /\ net = Idle /\ res = Idle
    /\ ctor = Idle /\ att = Idle /\ fwd = Idle

NextLg == LgForwardTied \/ LgForwardUntied

SpecLg == InitLg /\ [][NextLg]_vars

\* C5: for every num_hyperspheres >= 1 and every input, the logits of the
\* tied network equal those of the untied network holding the same weights,
\* before and after the logit scale.
C5_TiedEquivalence ==
    (lg.pc = "built" /\ lg.tiedOut # <<>> /\ lg.untiedOut # <<>>) =>
        /\ lg.tiedOut[1].logits = lg.untiedOut[1].logits
        /\ lg.tiedOut[1].scaled = lg.untiedOut[1].scaled

---------------------------------------------------------------------------
(* nGPT.__init__, nGPT.py lines 362-495: the ten per-layer scale           *)
(* hyperparameters.  A Python value is [kind, v, items] with kind one of   *)
(* "float", "None", "tuple", "list"; floats are told apart by v.           *)

PyFloat(v) == [kind |-> "float", v |-> v, items |-> <<>>]
PyNone == [kind |-> "None", v |-> 0, items |-> <<>>]
PyTuple(items) == [kind |-> "tuple", v |-> 0, items |-> items]
PyList(items) == [kind |-> "list", v |-> 0, items |-> items]

\* exists and default, lines 29-33
exists(v) == v.kind # "None"
default(v, d) == IF exists(v) THEN v ELSE d

\* cast_tuple without its length check
cast_tuple_unchecked(t, length) ==
    [raised |-> FALSE,
     out |-> IF t.kind = "tuple" THEN t.items ELSE [i \in 1..length |-> t]]

\* cast_tuple, lines 35-38: only a tuple is taken as given; the assert
\* raises AssertionError
cast_tuple(t, length) ==
    LET out == IF t.kind = "tuple" THEN t.items ELSE [i \in 1..length |-> t]
    IN  IF Len(out) = length THEN [raised |-> FALSE, out |-> out]
        ELSE [raised |-> TRUE, out |-> <<>>]

\* the names of scale_hparams, lines 421-432, in order
HparamNames ==
    <<"alpha_attn_init", "alpha_attn_scale", "alpha_ff_init", "alpha_ff_scale",
      "s_qk_init", "s_qk_scale", "s_ff_hidden_init", "s_ff_hidden_scale",
      "s_ff_gate_init", "s_ff_gate_scale">>

\* their defaults, lines 382-391
HparamDefaults ==
    <<PyNone, PyNone, PyNone, PyNone, PyFloat(1), PyNone, PyFloat(1), PyFloat(1),
      PyFloat(1), PyFloat(1)>>

\* Scale.__init__ (lines 79-80) computes torch.ones(dim) * scale and
\* init / scale: both need numbers
ScaleBuilds(init, scale) == init.kind = "float" /\ scale.kind = "float"

\* the modules one pass of the loop of lines 436-489 builds before it ends
\* or a Scale raises TypeError; hp are the loop variables, other the derived
\* defaults (alpha_init, dim ** -1, dim ** -0.5)
LayerBuilt(hp, other) ==
    IF ~ScaleBuilds(hp[5], default(hp[6], other)) THEN <<>>
    ELSE IF ~(ScaleBuilds(hp[7], hp[8]) /\ ScaleBuilds(hp[9], hp[10]))
         THEN <<"attn">>
    ELSE IF ~ScaleBuilds(default(hp[1], other), default(hp[2], other))
         THEN <<"attn", "ff">>
    ELSE IF ~ScaleBuilds(default(hp[3], other), default(hp[4], other))
         THEN <<"attn", "ff", "attn_with_residual">>
    ELSE <<"attn", "ff", "attn_with_residual", "ff_with_residual">>

\* the number of passes zip(*scale_hparams) makes, line 447
ZipLen(tuples) ==
    CHOOSE n \in 0..(MaxSeqLen + MaxDepth + 1) :
        /\ \A h \in 1..Len(tuples) : n <= Len(tuples[h])
        /\ \E h \in 1..Len(tuples) : n = Len(tuples[h])

\* the values a hyperparameter may be given as: None, a float, and tuples
\* and lists of floats of every length up to MaxSeqLen
SeqItems(n) == [i \in 1..n |-> PyFloat(10 + i)]

HparamValues ==
    {PyNone, PyFloat(7)}
    \cup {PyTuple(SeqItems(n)) : n \in 0..MaxSeqLen}
    \cup {PyList(SeqItems(n)) : n \in 0..MaxSeqLen}

\* the constructor is entered with one hyperparameter given and the others
\* at their defaults
CtorInit ==
    \E depth \in 1..MaxDepth, h \in 1..10, v \in HparamValues :
        ctor = [pc |-> "cast", depth |-> depth, given |-> h,
                args |-> [HparamDefaults EXCEPT ![h] = v],
                scale_hparams |-> <<>>, layers |-> <<>>, error |-> None]

\* line 434: every hyperparameter through cast_tuple, the first failure raising
CtorCastTuples ==
    /\ ctor.pc = "cast"
    /\ LET cast == [h \in 1..10 |-> cast_tuple(ctor.args[h], ctor.depth)]
       IN  IF \E h \in 1..10 : cast[h].raised
           THEN ctor' = [ctor EXCEPT !.pc = "raised", !.error = "AssertionError"]
           ELSE ctor' = [ctor EXCEPT !.pc = "layers",
                                     !.scale_hparams = [h \in 1..10 |-> cast[h].out]]
    /\ UNCHANGED <<l2, nl, net, res, lg, att, fwd>>

\* one pass of the loop of lines 436-489
CtorBuildLayer ==
    /\ ctor.pc = "layers"
    /\ Len(ctor.layers) < ZipLen(ctor.scale_hparams)
    /\ LET i     == Len(ctor.layers) + 1
           hp    == [h \in 1..10 |-> ctor.scale_hparams[h][i]]
           built == LayerBuilt(hp, PyFloat(0))
       IN  IF Len(built) = 4
           THEN ctor' = [ctor EXCEPT !.layers = Append(@, [hp |-> hp, built |-> built])]
           ELSE ctor' = [ctor EXCEPT !.layers = Append(@, [hp |-> hp, built |-> built]),
                                     !.pc = "raised", !.error = "TypeError"]
    /\ UNCHANGED <<l2, nl, net, res, lg, att, fwd>>

\* lines 491-495
CtorFinish ==
    /\ ctor.pc = "layers"
    /\ Len(ctor.layers) = ZipLen(ctor.scale_hparams)
    /\ ctor' = [ctor EXCEPT !.pc = "done"]
    /\ UNCHANGED <<l2, nl, net, res, lg, att, fwd>>

InitCtor ==
    /\ CtorInit
    /\ l2 = Idle /\ nl = Idle /\ net = Idle /\ res = Idle
    /\ lg = Idle /\ att = Idle /\ fwd = Idle

NextCtor == CtorCastTuples \/ CtorBuildLayer \/ CtorFinish

SpecCtor == InitCtor /\ [][NextCtor]_vars

GivenValue == ctor.args[ctor.given]

\* a scalar or None reaches every layer unchanged
C6Broadcast ==
    (GivenValue.kind \in {"float", "None"} /\ ctor.pc \in {"layers", "done"}) =>
        /\ \A i \in 1..Len(ctor.layers) : ctor.layers[i].hp[ctor.given] = GivenValue
        /\ ctor.pc = "done" => Len(ctor.layers) = ctor.depth

\* a tuple of length depth gives layer i its i-th element
C6PerLayer ==
    (GivenValue.kind = "tuple" /\ Len(GivenValue.items) = ctor.depth
        /\ ctor.pc \in {"layers", "done"}) =>
        /\ \A i \in 1..Len(ctor.layers) :
               ctor.layers[i].hp[ctor.given] = GivenValue.items[i]
        /\ ctor.pc = "done" => Len(ctor.layers) = ctor.depth

\* a sequence of the kinds given, of a length other than depth, fails at the
\* length check before any layer is built
C6LengthError(kinds) ==
    (GivenValue.kind \in kinds /\ Len(GivenValue.items) # ctor.depth
        /\ ctor.pc # "cast") =>
        /\ ctor.pc = "raised" /\ ctor.error = "AssertionError"
        /\ ctor.layers = <<>>

\* C6 as stated: scalars and None are broadcast, a sequence of length depth
\* is taken per layer, and a tuple or list of any other length fails at the
\* length check before any layer is built.
C6_AsStated ==
    C6Broadcast /\ C6PerLayer /\ C6LengthError({"tuple", "list"})

\* C6 amended: scalars and None are broadcast, a tuple of length depth is
\* taken per layer, and a tuple of any other length fails at the length
\* check (AssertionError) before any layer is built.  A list is not taken as
\* a sequence: whatever its length it passes the length check and is handed
\* whole to every layer like a scalar.
C6_HparamBroadcast ==
    /\ C6Broadcast /\ C6PerLayer /\ C6LengthError({"tuple"})
    /\ (GivenValue.kind = "list" /\ ctor.pc # "cast") =>
           /\ ctor.error # "AssertionError"
           /\ ctor.scale_hparams[ctor.given] = [i \in 1..ctor.depth |-> GivenValue]
           /\ \A i \in 1..Len(ctor.layers) : ctor.layers[i].hp[ctor.given] = GivenValue

\* a tuple one longer than depth = 2 was refused by the length check with
\* no layer built
C6_Witness ==
    /\ ctor.pc = "raised" /\ ctor.error = "AssertionError" /\ ctor.depth = 2
    /\ GivenValue = PyTuple(SeqItems(3)) /\ ctor.layers = <<>>

---------------------------------------------------------------------------
(* Attention.forward, nGPT.py lines 251-311: the mask.  mask[b][j] says    *)
(* that key j of batch row b is valid.  An output row out[b][i] is         *)
(* "zero", "val" (finite) or "nan".  F.scaled_dot_product_attention is an  *)
(* external kernel: it applies the mask and, when is_causal, the causal    *)
(* order together, and what it returns for a query with no visible key is  *)
(* not defined (NaN from a softmax over nothing, or any finite value).     *)

\* the keys query i of batch row b attends to (lines 295-300)
VisibleKeys(mask, causal, b, i) ==
    {j \in 1..Len(mask[b]) : mask[b][j] /\ (causal => j <= i)}

\* line 288: ~mask.any(dim = -1), one flag per batch row
row_all_masked_out(mask) ==
    [b \in 1..Len(mask) |-> ~(\E j \in 1..Len(mask[b]) : mask[b][j])]

\* lines 294-300: undef is what the kernel gives a query with no visible key
sdpa(mask, causal, undef) ==
    [b \in 1..Len(mask) |-> [i \in 1..Len(mask[b]) |->
        IF VisibleKeys(mask, causal, b, i) = {} THEN undef ELSE "val"]]

\* lines 302-306: merge_heads and to_out keep a row finite or NaN, then the
\* flagged batch rows are filled with zero
Attention_mask_output(kernel_out, flags) ==
    [b \in 1..Len(kernel_out) |-> [i \in 1..Len(kernel_out[b]) |->
        IF (\E bb \in 1..Len(flags) : flags[bb]) /\ flags[b] THEN "zero"
        ELSE kernel_out[b][i]]]

\* lines 265-268: the value tensor after the optional value residual; a
\* value is a rational, <<>> is None
Attention_values(v, value_residual) ==
    IF value_residual # <<>>
    THEN <<RatMul(<<1, 2>>, RatAdd(v[1], value_residual[1]))>>
    ELSE v

---------------------------------------------------------------------------
(* One call of Attention.forward with a mask *)

Masks == UNION {[1..MaxBatch -> [1..n -> BOOLEAN]] : n \in 1..MaxSeq}

AttInit ==
    \E causal \in BOOLEAN, mask \in Masks :
        att = [pc |-> "call", causal |-> causal, mask |-> mask,
               flags |-> <<>>, kernel_out |-> <<>>, out |-> <<>>]

\* lines 259-300: up to and including the kernel call
AttKernel ==
    /\ att.pc = "call"
    /\ \E undef \in {"nan", "val"} :
         att' = [att EXCEPT !.pc = "kernel",
                            !.flags = row_all_masked_out(att.mask),
                            !.kernel_out = sdpa(att.mask, att.causal, undef)]
    /\ UNCHANGED <<l2, nl, net, res, lg, ctor, fwd>>

\* lines 302-311
AttOutput ==
    /\ att.pc = "kernel"
    /\ att' = [att EXCEPT !.pc = "done",
                          !.out = Attention_mask_output(att.kernel_out, att.flags)]
    /\ UNCHANGED <<l2, nl, net, res, lg, ctor, fwd>>

InitAtt ==
    /\ AttInit
    /\ l2 = Idle /\ nl = Idle /\ net = Idle /\ res = Idle
    /\ lg = Idle /\ ctor = Idle /\ fwd = Idle

NextAtt == AttKernel \/ AttOutput

SpecAtt == InitAtt /\ [][NextAtt]_vars

\* C7: with a mask supplied, every position all of whose keys are masked
\* out (with causal, all of its causally visible keys) has an output row of
\* exactly zero, and no NaN is anywhere in the output.
C7_MaskedRowsZero ==
    att.pc = "done" =>
        \A b \in 1..Len(att.mask) : \A i \in 1..Len(att.mask[b]) :
            /\ VisibleKeys(att.mask, att.causal, b, i) = {} => att.out[b][i] = "zero"
            /\ att.out[b][i] # "nan"

---------------------------------------------------------------------------
(* nGPT.forward, nGPT.py lines 524-586, as the steps of its layer loop.    *)
(* fwd holds the arguments (seq is the length of ids, mask_len the key     *)
(* length of the mask or 0 for None), the network's depth, causal and      *)
(* add_value_residual, and the locals: n (the sequence length of tokens),  *)
(* hiddens, first_values, and per attention call what the layer was        *)
(* handed.  own[k] is the value tensor to_v of layer k computes; <<>> is   *)
(* None.                                                                   *)

\* the length kept had the inputs not been shifted
unshifted_len(seq, return_loss) == seq

\* line 535: ids[:, :-1] under return_loss
shifted_len(seq, return_loss) == IF return_loss THEN seq - 1 ELSE seq

\* the carried value had each layer's value replaced the last
carry_last_values(first_values, values) == values

\* line 547: first_values = default(first_values, values)
carry_first_values(first_values, values) ==
    IF first_values # <<>> THEN first_values ELSE values

\* values the to_v projection of a layer may compute
OwnValues == {<<1, 1>>, <<3, 1>>}

FwdInit ==
    \E depth \in 1..MaxDepth, seq \in 2..MaxSeq, masked, causal, avr, rl, rh \in BOOLEAN :
      \E own \in [1..depth -> OwnValues] :
        fwd = [pc |-> "start", depth |-> depth, causal |-> causal,
               add_value_residual |-> avr, return_loss |-> rl, return_hiddens |-> rh,
               seq |-> seq, mask_len |-> IF masked THEN seq ELSE 0, own |-> own,
               n |-> 0, layer |-> 0, hiddens |-> <<>>, first_values |-> <<>>,
               calls |-> <<>>, error |-> None, ret |-> <<>>]

\* lines 531-541
FwdStart ==
    /\ fwd.pc = "start"
    /\ IF fwd.return_loss /\ ~fwd.causal
       THEN fwd' = [fwd EXCEPT !.pc = "raised", !.error = "AssertionError"]
       ELSE LET n == shifted_len(fwd.seq, fwd.return_loss)
            IN  fwd' = [fwd EXCEPT !.pc = "attn", !.layer = 1, !.n = n,
                            !.hiddens = <<[from |-> "token_embed", layer |-> 0, n |-> n]>>,
                            !.first_values = <<>>]
    /\ UNCHANGED <<l2, nl, net, res, lg, ctor, att>>

\* lines 544-547: the attention block of the layer, through its Residual.
\* The kernel takes a mask of shape (b, 1, 1, j) only with j the key length
\* n of the tokens, and raises otherwise (lines 290-300).
FwdAttn ==
    /\ fwd.pc = "attn"
    /\ LET k      == fwd.layer
           given  == IF fwd.add_value_residual THEN fwd.first_values ELSE <<>>
           values == Attention_values(<<fwd.own[k]>>, given)
           call   == [layer |-> k, n |-> fwd.n, mask_len |-> fwd.mask_len,
                      value_residual |-> given, values |-> values]
       IN  IF fwd.mask_len # 0 /\ fwd.mask_len # fwd.n
           THEN fwd' = [fwd EXCEPT !.pc = "raised", !.error = "RuntimeError",
                                   !.calls = Append(@, [call EXCEPT !.values = <<>>])]
           ELSE fwd' = [fwd EXCEPT !.pc = "ff",
                            !.calls = Append(@, call),
                            !.hiddens = Append(@, [from |-> "attn", layer |-> k, n |-> fwd.n]),
                            !.first_values = carry_first_values(fwd.first_values, values)]
    /\ UNCHANGED <<l2, nl, net, res, lg, ctor, att>>

\* lines 549-551
FwdFF ==
    /\ fwd.pc = "ff"
    /\ fwd' = [fwd EXCEPT !.pc = IF fwd.layer = fwd.depth THEN "logits" ELSE "attn",
                          !.layer = IF fwd.layer = fwd.depth THEN @ ELSE @ + 1,
                          !.hiddens = Append(@, [from |-> "ff", layer |-> fwd.layer, n |-> fwd.n])]
    /\ UNCHANGED <<l2, nl, net, res, lg, ctor, att>>

\* lines 553-586: logits, the stacked hiddens and the loss
FwdReturn ==
    /\ fwd.pc = "logits"
    /\ fwd' = [fwd EXCEPT !.pc = "done",
                          !.ret = [first |-> IF fwd.return_loss THEN "loss" ELSE "logits",
                                   hiddens |-> IF fwd.return_hiddens THEN fwd.hiddens ELSE <<>>]]
    /\ UNCHANGED <<l2, nl, net, res, lg, ctor, att>>

InitFwd ==
    /\ FwdInit
    /\ l2 = Idle /\ nl = Idle /\ net = Idle /\ res = Idle
    /\ lg = Idle /\ ctor = Idle /\ att = Idle

NextFwd == FwdStart \/ FwdAttn \/ FwdFF \/ FwdReturn

SpecFwd == InitFwd /\ [][NextFwd]_vars

\* the snapshot expected at place p of the returned hiddens
ExpectedHidden(p, n) ==
    IF p = 1 THEN [from |-> "token_embed", layer |-> 0, n |-> n]
    ELSE IF p % 2 = 0 THEN [from |-> "attn", layer |-> p \div 2, n |-> n]
    ELSE [from |-> "ff", layer |-> (p - 1) \div 2, n |-> n]

\* C8: with return_hiddens the forward returns exactly 1 + 2 * depth
\* snapshots, in the order embedded tokens, after attention of layer 1, after
\* feedforward of layer 1, ..., each of sequence length seq - 1 under
\* return_loss and seq otherwise.
C8_Hiddens ==
    (fwd.pc = "done" /\ fwd.return_hiddens) =>
        /\ Len(fwd.ret.hiddens) = 1 + 2 * fwd.depth
        /\ \A p \in 1..Len(fwd.ret.hiddens) :
               fwd.ret.hiddens[p] =
                   ExpectedHidden(p, IF fwd.return_loss THEN fwd.seq - 1 ELSE fwd.seq)

\* a forward of the deepest network that returned the loss with its hiddens
C8_Witness ==
    /\ fwd.pc = "done" /\ fwd.return_hiddens /\ fwd.return_loss
    /\ fwd.depth = MaxDepth /\ fwd.seq = MaxSeq
    /\ fwd.ret.first = "loss" /\ Len(fwd.ret.hiddens) = 1 + 2 * MaxDepth

\* C9: with add_value_residual the first layer's attention receives no value
\* residual, every later layer receives exactly the value layer 1 returned
\* and returns 0.5 * (own + carried), and the carried value is never
\* overwritten after layer 1; without add_value_residual no layer receives one.
C9_ValueResidual ==
    fwd.pc \in {"attn", "ff", "logits", "done"} =>
        /\ \A k \in 1..Len(fwd.calls) :
             LET c == fwd.calls[k]
             IN  /\ c.layer = k
                 /\ c.value_residual =
                        IF fwd.add_value_residual /\ k > 1 THEN fwd.calls[1].values ELSE <<>>
                 /\ c.values =
                        IF fwd.add_value_residual /\ k > 1
                        THEN <<RatMul(<<1, 2>>, RatAdd(fwd.own[k], fwd.calls[1].values[1]))>>
                        ELSE <<fwd.own[k]>>
        /\ fwd.first_values = IF fwd.calls = <<>> THEN <<>> ELSE fwd.calls[1].values
        /\ fwd.pc = "done" => Len(fwd.calls) = fwd.depth

\* the third layer was handed layer 1's value although layer 2 returned a
\* different, blended one
C9_Witness ==
    /\ fwd.pc = "done" /\ fwd.add_value_residual /\ fwd.depth >= 3
    /\ fwd.calls[3].value_residual = fwd.calls[1].values
    /\ fwd.calls[2].values # fwd.calls[1].values
    /\ fwd.calls[3].values # <<fwd.own[3]>>

\* C10: when a mask as long as ids is supplied, the mask handed to every
\* attention layer has a key length equal to the sequence length of the
\* tokens the layer processes, with and without return_loss, and the forward
\* does not fail on a length mismatch.
C10_MaskLength ==
    fwd.mask_len = fwd.seq =>
        /\ \A k \in 1..Len(fwd.calls) : fwd.calls[k].mask_len = fwd.calls[k].n
        /\ fwd.error # "RuntimeError"

---------------------------------------------------------------------------
(* Training under the lazy policy: a network of depth 1 built with         *)
(* manual_norm_weights = True, the post-step hook registered, optimizer    *)
(* steps and forward passes.  net.mods maps the path of each NormLinear to *)
(* its record.                                                             *)

\* how many optimizer steps a run takes
MaxSteps == 2

\* the module tree in the order Module.modules() walks it, each with its
\* class: nGPT (lines 415-491), Attention (229-246), FeedForward (339-345)
ModuleTree(tied_embedding) ==
    << <<"", "nGPT">>, <<"token_embed", "NormLinear">>,
       <<"attn", "Attention">>, <<"attn.to_q", "NormLinear">>,
       <<"attn.to_k", "NormLinear">>, <<"attn.to_v", "NormLinear">>,
       <<"attn.to_out", "NormLinear">>,
       <<"ff", "FeedForward">>, <<"ff.to_hidden", "NormLinear">>,
       <<"ff.to_gate", "NormLinear">>, <<"ff.to_out", "NormLinear">> >>
    \o (IF tied_embedding THEN <<>> ELSE << <<"to_logits", "NormLinear">> >>)

\* the projections built with norm_dim_in = False (lines 246 and 345)
OutputAxis == {"attn.to_out", "ff.to_out"}

\* the classes that define __eq__ and no __hash__ (lines 82, 167, 248, 347,
\* 497): their instances are unhashable
Unhashable == {"Scale", "NormLinear", "Attention", "FeedForward", "nGPT"}

NormLinearPaths(tied_embedding) ==
    {ModuleTree(tied_embedding)[p][1] : p \in
        {q \in 1..Len(ModuleTree(tied_embedding)) :
            ModuleTree(tied_embedding)[q][2] = "NormLinear"}}

\* nGPT.norm_weights_, lines 508-514.  self.modules() keeps the modules it
\* has yielded in a memo: where the memo hashes them, the root, an instance
\* of an unhashable class, raises TypeError before anything is yielded;
\* where it does not, every module is yielded once.
nGPT_norm_weights_(network) ==
    LET tree == ModuleTree(network.tied_embedding)
    IN  IF network.memo = "hashes" /\ tree[1][2] \in Unhashable
        THEN [network EXCEPT !.raised = TRUE, !.visited = {}]
        ELSE [network EXCEPT
                !.visited = NormLinearPaths(network.tied_embedding),
                !.mods = [nm \in DOMAIN network.mods |->
                             NormLinear_norm_weights_(network.mods[nm])]]

\* the hook of register_step_post_hook, lines 516-522
hook(network) == nGPT_norm_weights_(network)

\* the vectors of W the Normalizer invariant is about: each line along dim,
\* cut into groups contiguous pieces
GroupLines(W, dim, groups) ==
    UNION {{SubSeq(ln, (g - 1) * (Len(ln) \div groups) + 1, g * (Len(ln) \div groups)) :
               g \in 1..groups} : ln \in Lines(W, dim)}

HoldsUnitNorm(m) == \A v \in GroupLines(m.stored, m.dim, m.groups) : IsUnit(v)

TrainInit ==
    \E raw \in RawWeights, memo \in {"hashes", "identity"},
       num_hyperspheres \in 1..2, tied \in BOOLEAN :
        net = [pc |-> "ready", memo |-> memo, tied_embedding |-> tied,
               mods |-> [nm \in NormLinearPaths(tied) |->
                           NormLinear_init(raw, nm \notin OutputAxis, FALSE,
                                           <<0, 1>>, num_hyperspheres)],
               seen |-> [nm \in NormLinearPaths(tied) |-> TRUE],
               ran |-> FALSE, steps |-> 0, raised |-> FALSE, visited |-> {}]

\* optimizer.step(): the stored weights change, then the post-step hook runs
TrainOptimizerStep ==
    /\ net.pc = "ready" /\ net.steps < MaxSteps /\ ~net.raised
    /\ \E which \in SUBSET (DOMAIN net.mods), k \in 1..2, c \in PerturbFactors :
         /\ which # {} /\ (Cardinality(which) = 1 \/ which = DOMAIN net.mods)
         /\ LET stepped == [net EXCEPT
                    !.steps = @ + 1, !.ran = FALSE,
                    !.mods = [nm \in DOMAIN net.mods |->
                        IF nm \in which
                        THEN [net.mods[nm] EXCEPT
                                !.stored = RescaleLine(@, net.mods[nm].dim, k, c)]
                        ELSE net.mods[nm]]]
            IN  net' = hook(stepped)
    /\ UNCHANGED <<l2, nl, res, lg, ctor, att, fwd>>

\* a forward pass starts: seen[nm] tells whether the weight of nm it reads
\* satisfies the invariant
TrainForward ==
    /\ net.pc = "ready" /\ ~net.ran
    /\ net' = [net EXCEPT !.ran = TRUE,
                          !.seen = [nm \in DOMAIN net.mods |-> HoldsUnitNorm(net.mods[nm])]]
    /\ UNCHANGED <<l2, nl, res, lg, ctor, att, fwd>>

InitTrain ==
    /\ TrainInit
    /\ l2 = Idle /\ nl = Idle /\ res = Idle /\ lg = Idle
    /\ ctor = Idle /\ att = Idle /\ fwd = Idle

NextTrain == TrainOptimizerStep \/ TrainForward

SpecTrain == InitTrain /\ [][NextTrain]_vars

\* C1: under the lazy policy with the post-step hook registered, every
\* forward pass starts with every NormLinear holding a stored weight whose
\* rows (columns for the output-axis projections) have unit norm, and the
\* renormalization pass run after each optimizer step visits every NormLinear.
C1_LazyUnitNorm ==
    /\ net.ran => \A nm \in DOMAIN net.seen : net.seen[nm]
    /\ net.steps > 0 =>
          /\ ~net.raised
          /\ net.visited = NormLinearPaths(net.tied_embedding)

====
